---- MODULE Spec2Model ----
(***************************************************************************)
(* State-machine model of the generic repository layer:                    *)
(*   repository/query.go      Filter (the filter-to-query compiler) and    *)
(*                            the generic CRUD / listing functions         *)
(*   repository/repository.go baseRepository, the thin facade over them    *)
(*                                                                         *)
(* gorm (the storage collaborator) is modelled by what the calls made on   *)
(* it do: a *gorm.DB chain is the sequence of clauses applied to it, in    *)
(* call order, and the executing calls (Count, Find, Last, Updates,        *)
(* Delete, UpdateColumn, Create) answer from a small table of rows or with *)
(* a storage error.                                                        *)
(***************************************************************************)
EXTENDS Integers, Sequences, FiniteSets, TLC

(***************************************************************************)
(* Strings.  A string whose characters matter (Sort, the entries of        *)
(* Sortable) is a sequence of glyphs: "," "-" " " are the characters the   *)
(* code looks at, every other glyph (id, name, ...) stands for the run of  *)
(* letters that spells it.  Field names, operator keys and table names,    *)
(* which the code only compares for equality, are TLA+ strings.            *)
(***************************************************************************)
Space == " "

Comma == ","

Minus == "-"

RECURSIVE TrimLeft(_)
\* strings.TrimSpace, leading part: drop white space at the front
TrimLeft(s) ==
    IF s # <<>> /\ Head(s) = Space THEN TrimLeft(Tail(s)) ELSE s

RECURSIVE TrimRight(_)
\* strings.TrimSpace, trailing part: drop white space at the end
TrimRight(s) ==
    IF s # <<>> /\ s[Len(s)] = Space
    THEN TrimRight(SubSeq(s, 1, Len(s) - 1))
    ELSE s

\* strings.TrimSpace(s)
TrimSpace(s) == TrimRight(TrimLeft(s))

\* strings.HasPrefix(s, "-")
HasPrefix(s, c) == s # <<>> /\ Head(s) = c

\* strings.TrimPrefix(s, "-"): one leading occurrence is removed
TrimPrefix(s, c) == IF HasPrefix(s, c) THEN Tail(s) ELSE s

RECURSIVE SplitFrom(_, _, _)
\* strings.Split(s, ","), scanning left to right: cur is the piece being
\* read.  Split of the empty string is one empty piece.
SplitFrom(s, cur, sep) ==
    IF s = <<>> THEN <<cur>>
    ELSE IF Head(s) = sep
         THEN <<cur>> \o SplitFrom(Tail(s), <<>>, sep)
         ELSE SplitFrom(Tail(s), Append(cur, Head(s)), sep)

\* strings.Split(s, sep)
Split(s, sep) == SplitFrom(s, <<>>, sep)

\* strings.ToLower on the join kinds the model draws
ToLower(s) ==
    CASE s = "LEFT" -> "left"
      [] s = "Left" -> "left"
      [] s = "INNER" -> "inner"
      [] OTHER -> s

(***************************************************************************)
(* Go's int is 64 bits wide on the platforms the module is built for.  A   *)
(* value is its two's-complement bit pattern in four 16-bit limbs, least   *)
(* significant first, so that the product in the offset computation wraps  *)
(* as the machine's does.                                                  *)
(***************************************************************************)
LimbBase == 65536

SignLimb == 32768

Limb == 0 .. (LimbBase - 1)

\* the int64 of a small literal n, -65536 <= n < 65536
I64(n) ==
    IF n >= 0 THEN <<n, 0, 0, 0>>
    ELSE <<LimbBase + n, LimbBase - 1, LimbBase - 1, LimbBase - 1>>

MaxInt64 == <<LimbBase - 1, LimbBase - 1, LimbBase - 1, SignLimb - 1>>

MinInt64 == <<0, 0, 0, SignLimb>>

IsNeg(x) == x[4] >= SignLimb

IsZero(x) == x = <<0, 0, 0, 0>>

\* x <= 0
LeZero(x) == IsNeg(x) \/ IsZero(x)

\* x > k for a literal 0 <= k < 65536
GtLit(x, k) == ~IsNeg(x) /\ (x[4] > 0 \/ x[3] > 0 \/ x[2] > 0 \/ x[1] > k)

RECURSIVE SubLimbs(_, _)
\* limbs of x - borrow, to the width of x (wraps)
SubLimbs(x, borrow) ==
    IF x = <<>> THEN <<>>
    ELSE LET d == Head(x) - borrow
         IN  IF d < 0
             THEN <<d + LimbBase>> \o SubLimbs(Tail(x), 1)
             ELSE <<d>> \o SubLimbs(Tail(x), 0)

\* x - 1 in int64 arithmetic
Dec(x) == SubLimbs(x, 1)

RECURSIVE MulLimbs(_, _, _)
\* limbs of x * k + carry, one limb longer than x: the last limb is the
\* carry out of the top
MulLimbs(x, k, carry) ==
    IF x = <<>> THEN <<carry>>
    ELSE LET p == Head(x) * k + carry
         IN  <<p % LimbBase>> \o MulLimbs(Tail(x), k, p \div LimbBase)

\* x * k in int64 arithmetic, for 0 <= k <= 500: the carry out is lost
MulLit(x, k) == SubSeq(MulLimbs(x, k, 0), 1, 4)

\* the literal value of an int64 known to be in 0 .. 65535
Lit(x) == x[1]

\* 0 <= x < 65536
IsLit(x) == x[2] = 0 /\ x[3] = 0 /\ x[4] = 0

(***************************************************************************)
(* Values of type interface{}.  t is the dynamic Go type the code's type   *)
(* switches look at; s is the text of a scalar, elems the elements of a    *)
(* slice, m the entries of a map[string]interface{}.                       *)
(***************************************************************************)
NoMap == [k \in {} |-> 0]

Scalar(t, s) == [t |-> t, s |-> s, elems |-> <<>>, m |-> NoMap]

Slice(t, elems) == [t |-> t, s |-> "", elems |-> elems, m |-> NoMap]

MapVal(m) == [t |-> "map[string]interface{}", s |-> "", elems |-> <<>>, m |-> m]

Nil == Scalar("nil", "")

\* fmt.Sprintf("%v", value): the textual form of a value
Sprintv(v) ==
    CASE v.t \in {"string", "int", "float64", "bool", "int64"} ->
             Scalar("string", v.s)
      [] v.t = "nil" -> Scalar("string", "<nil>")
      [] v.t = "map[string]interface{}" -> Scalar("string", "map[...]")
      [] OTHER -> Scalar("string", "[...]")

(***************************************************************************)
(* encoding/json.  QueryStr is the sequence of the JSON tokens it holds    *)
(* (the empty sequence is the empty string); Unmarshal parses the tokens   *)
(* into a map[string]interface{} as the decoder does: numbers decode to    *)
(* float64, arrays to []interface{}, objects to map[string]interface{},    *)
(* a repeated key keeps its last value, a top-level null leaves the map    *)
(* nil without error, and anything else is an error.                       *)
(***************************************************************************)
Tok(k, s) == [k |-> k, s |-> s]

LBrace == Tok("{", "")

RBrace == Tok("}", "")

LBrack == Tok("[", "")

RBrack == Tok("]", "")

Colon == Tok(":", "")

Sep == Tok(",", "")

Str(s) == Tok("string", s)

Num(s) == Tok("number", s)

JTrue == Tok("true", "true")

JNull == Tok("null", "")

\* a character that starts no JSON token
Junk == Tok("invalid", "")

Fail == [ok |-> FALSE, v |-> Nil, next |-> 0]

Parsed(v, next) == [ok |-> TRUE, v |-> v, next |-> next]

At(toks, i) == IF i <= Len(toks) THEN toks[i] ELSE Tok("eof", "")

RECURSIVE ParseValue(_, _)
RECURSIVE ParseElems(_, _, _)
RECURSIVE ParseMembers(_, _, _)
\* one JSON value starting at token i
ParseValue(toks, i) ==
    LET t == At(toks, i)
    IN  CASE t.k = "string" -> Parsed(Scalar("string", t.s), i + 1)
          [] t.k = "number" -> Parsed(Scalar("float64", t.s), i + 1)
          [] t.k = "true" -> Parsed(Scalar("bool", t.s), i + 1)
          [] t.k = "null" -> Parsed(Nil, i + 1)
          [] t.k = "[" ->
                 IF At(toks, i + 1).k = "]"
                 THEN Parsed(Slice("[]interface{}", <<>>), i + 2)
                 ELSE ParseElems(toks, i + 1, <<>>)
          [] t.k = "{" ->
                 IF At(toks, i + 1).k = "}"
                 THEN Parsed(MapVal(NoMap), i + 2)
                 ELSE ParseMembers(toks, i + 1, NoMap)
          [] OTHER -> Fail

\* the elements of an array, the first of them at token i
ParseElems(toks, i, acc) ==
    LET e == ParseValue(toks, i)
    IN  IF ~e.ok THEN Fail
        ELSE LET t == At(toks, e.next)
                 got == Append(acc, e.v)
             IN  CASE t.k = "," -> ParseElems(toks, e.next + 1, got)
                   [] t.k = "]" ->
                          Parsed(Slice("[]interface{}", got), e.next + 1)
                   [] OTHER -> Fail

\* the members of an object, the first key at token i
ParseMembers(toks, i, acc) ==
    IF At(toks, i).k # "string" \/ At(toks, i + 1).k # ":" THEN Fail
    ELSE LET e == ParseValue(toks, i + 2)
         IN  IF ~e.ok THEN Fail
             ELSE LET t == At(toks, e.next)
                      got == (At(toks, i).s :> e.v) @@ acc
                  IN  CASE t.k = "," -> ParseMembers(toks, e.next + 1, got)
                        [] t.k = "}" -> Parsed(MapVal(got), e.next + 1)
                        [] OTHER -> Fail

\* json.Unmarshal([]byte(s), &queryMap): err is "" for nil
Unmarshal(toks) ==
    LET r == ParseValue(toks, 1)
    IN  IF ~r.ok \/ r.next # Len(toks) + 1
        THEN [err |-> "invalid JSON", m |-> NoMap]
        ELSE CASE r.v.t = "map[string]interface{}" ->
                      [err |-> "", m |-> r.v.m]
               [] r.v.t = "nil" -> [err |-> "", m |-> NoMap]
               [] OTHER -> [err |-> "cannot unmarshal", m |-> NoMap]

(***************************************************************************)
(* The query plan.  db is the *gorm.DB chain: the clauses applied so far,  *)
(* in the order of the calls.  sql is the text handed to gorm, in the      *)
(* pieces fmt.Sprintf joins; args are the bound values; n is the number    *)
(* of an Offset or Limit.  src names the call site of applyQueryConditions *)
(* a predicate comes from ("Filters": line 62, "QueryStr": line 68).       *)
(***************************************************************************)
Clause(kind, src, sql, args, n) ==
    [kind |-> kind, src |-> src, sql |-> sql, args |-> args, n |-> n]

\* db.Unscoped()
Unscoped == Clause("Unscoped", "", <<>>, <<>>, <<>>)

\* db.Joins(text)
Joins(sql) == Clause("Joins", "", sql, <<>>, <<>>)

\* db.Where(fmt.Sprintf("%s <op>", field), args...)
Where(src, field, op, args) == Clause("Where", src, <<field, op>>, args, <<>>)

\* db.Order(fmt.Sprintf("%s %s", field, order))
Order(field, order) == Clause("Order", "", field \o <<Space, order>>, <<>>, <<>>)

\* db.Offset(n)
Offset(n) == Clause("Offset", "", <<>>, <<>>, n)

\* db.Limit(n)
Limit(n) == Clause("Limit", "", <<>>, <<>>, n)

\* one line of sqlRecords: fmt.Sprintf("[%s] | args: %v", desc, val); a
\* map[string]int value is carried in n
Line(desc, val, n) == [desc |-> desc, val |-> val, n |-> n]

\* Filter.recordSQL: rec is f.sqlRecords
recordSQL(flt, rec, desc, val, n) ==
    IF ~flt.Debug THEN rec ELSE Append(rec, Line(desc, val, n))

\* a clause applied to the chain together with its recordSQL call;
\* st is [db, rec]
Emit(flt, st, clause, desc, val) ==
    [db |-> Append(st.db, clause),
     rec |-> recordSQL(flt, st.rec, desc, val, <<>>)]

\* Filter.isFilterable, with an allow-list that accepts everything
isFilterableOpen(flt, field) == TRUE

\* Filter.isFilterable
isFilterable(flt, field) ==
    IF Len(flt.Filterable) = 0 THEN TRUE
    ELSE \E i \in 1 .. Len(flt.Filterable) : flt.Filterable[i] = field

\* the body of the loop of applyComplexCondition for one operator key
ComplexOp(flt, st, src, field, op, value) ==
    CASE op = "eq" ->
             Emit(flt, st, Where(src, field, " = ?", <<value>>),
                  <<"EQ ", field>>, <<value>>)
      [] op = "neq" ->
             Emit(flt, st, Where(src, field, " != ?", <<value>>),
                  <<"NEQ ", field>>, <<value>>)
      [] op = "gt" ->
             Emit(flt, st, Where(src, field, " > ?", <<value>>),
                  <<"GT ", field>>, <<value>>)
      [] op = "gte" ->
             Emit(flt, st, Where(src, field, " >= ?", <<value>>),
                  <<"GTE ", field>>, <<value>>)
      [] op = "lt" ->
             Emit(flt, st, Where(src, field, " < ?", <<value>>),
                  <<"LT ", field>>, <<value>>)
      [] op = "lte" ->
             Emit(flt, st, Where(src, field, " <= ?", <<value>>),
                  <<"LTE ", field>>, <<value>>)
      [] op = "like" ->
             Emit(flt, st, Where(src, field, " LIKE ?", <<Sprintv(value)>>),
                  <<"LIKE ", field>>, <<value>>)
      [] op = "in" ->
             Emit(flt, st, Where(src, field, " IN (?)", <<value>>),
                  <<"IN ", field>>, <<value>>)
      [] op = "between" ->
             IF value.t = "[]interface{}" /\ Len(value.elems) = 2
             THEN Emit(flt, st,
                       Where(src, field, " BETWEEN ? AND ?",
                             <<value.elems[1], value.elems[2]>>),
                       <<"BETWEEN ", field>>, <<value>>)
             ELSE st
      [] OTHER -> st

RECURSIVE applyComplexCondition(_, _, _, _, _, _)
\* Filter.applyComplexCondition: order is the order in which this run's
\* range statement visits the keys of conds
applyComplexCondition(flt, st, src, field, conds, order) ==
    IF order = <<>> THEN st
    ELSE applyComplexCondition(
             flt,
             ComplexOp(flt, st, src, field, Head(order), conds[Head(order)]),
             src, field, conds, Tail(order))

\* the body of the loop of applyQueryConditions for one field; inner is the
\* visiting order of the field's nested map
ConditionStep(flt, st, src, field, value, inner) ==
    IF ~isFilterable(flt, field) THEN st
    ELSE CASE value.t \in {"string", "int", "float64", "bool"} ->
                  Emit(flt, st, Where(src, field, " = ?", <<value>>),
                       <<"EQ ", field>>, <<value>>)
           [] value.t \in {"[]interface{}", "[]string"} ->
                  Emit(flt, st, Where(src, field, " IN (?)", <<value>>),
                       <<"IN ", field>>, <<value>>)
           [] value.t = "map[string]interface{}" ->
                  applyComplexCondition(flt, st, src, field, value.m, inner)
           [] OTHER -> st

RECURSIVE applyQueryConditions(_, _, _, _, _, _)
\* Filter.applyQueryConditions: order is the order in which this run's range
\* statement visits the fields, inner[field] that of a nested map
applyQueryConditions(flt, st, src, conditions, order, inner) ==
    IF order = <<>> THEN st
    ELSE applyQueryConditions(
             flt,
             ConditionStep(flt, st, src, Head(order),
                           conditions[Head(order)], inner[Head(order)]),
             src, conditions, Tail(order), inner)

\* the orders in which one range statement may visit the keys of map m
Orders(m) ==
    LET n == Cardinality(DOMAIN m)
    IN  {o \in [1 .. n -> DOMAIN m] :
            \A i, j \in 1 .. n : o[i] = o[j] => i = j}

\* for every key of m, a visiting order of the nested map it holds
InnerOrders(m) ==
    LET nested(k) == IF m[k].t = "map[string]interface{}"
                     THEN Orders(m[k].m)
                     ELSE {<<>>}
    IN  {g \in [DOMAIN m -> UNION {nested(k) : k \in DOMAIN m}] :
            \A k \in DOMAIN m : g[k] \in nested(k)}

RECURSIVE applyJoins(_, _, _)
\* PaginationQuery, the loop over f.Joins
applyJoins(flt, st, joins) ==
    IF joins = <<>> THEN st
    ELSE LET j == Head(joins)
             text == IF ToLower(j.JoinType) = "left"
                     THEN <<"LEFT JOIN ", j.Table, " ON ", j.On>>
                     ELSE <<"INNER JOIN ", j.Table, " ON ", j.On>>
         IN  applyJoins(flt, Emit(flt, st, Joins(text), text, <<Nil>>),
                        Tail(joins))

\* PaginationQuery, the Unscoped stage
applyUnscoped(flt, st) ==
    IF flt.Unscoped
    THEN Emit(flt, st, Unscoped, <<"UNSCOPED">>,
              <<Scalar("string", "include soft-deleted records")>>)
    ELSE st

\* PaginationQuery, the static Filters stage
applyFilters(flt, st, order, inner) ==
    IF Cardinality(DOMAIN flt.Filters) > 0
    THEN applyQueryConditions(flt, st, "Filters", flt.Filters, order, inner)
    ELSE st

\* the map PaginationQuery ranges over for QueryStr: the decoded object, or
\* no entries when QueryStr is empty or does not decode
QueryMap(flt) ==
    IF flt.QueryStr = <<>> THEN NoMap
    ELSE LET r == Unmarshal(flt.QueryStr)
         IN  IF r.err = "" THEN r.m ELSE NoMap

\* PaginationQuery, the QueryStr stage
applyQueryStr(flt, st, order, inner) ==
    IF flt.QueryStr # <<>>
    THEN LET r == Unmarshal(flt.QueryStr)
         IN  IF r.err = ""
             THEN applyQueryConditions(flt, st, "QueryStr", r.m, order, inner)
             ELSE st
    ELSE st

\* PaginationQuery with the join loop moved behind the conditions
PaginationQueryJoinsLast(flt, db, oF, iF, oQ, iQ) ==
    LET st0 == [db |-> db, rec |-> IF flt.Debug THEN <<>> ELSE flt.sqlRecords]
        st1 == applyUnscoped(flt, st0)
        st2 == applyFilters(flt, st1, oF, iF)
        st3 == applyQueryStr(flt, st2, oQ, iQ)
    IN  IF Len(flt.Joins) > 0 THEN applyJoins(flt, st3, flt.Joins) ELSE st3

\* Filter.PaginationQuery(db): the chain it returns and f.sqlRecords after
\* it.  oF, iF and oQ, iQ are the visiting orders of this run's range
\* statements over f.Filters and over the decoded QueryStr.
PaginationQuery(flt, db, oF, iF, oQ, iQ) ==
    LET st0 == [db |-> db, rec |-> IF flt.Debug THEN <<>> ELSE flt.sqlRecords]
        st1 == applyUnscoped(flt, st0)
        st2 == IF Len(flt.Joins) > 0 THEN applyJoins(flt, st1, flt.Joins)
               ELSE st1
        st3 == applyFilters(flt, st2, oF, iF)
    IN  applyQueryStr(flt, st3, oQ, iQ)

AlwaysSortable == {<<"id">>, <<"created_at">>, <<"updated_at">>}

\* Filter.isSortable without the three always-sortable fields
isSortableListOnly(flt, field) ==
    IF TrimSpace(field) = <<>> THEN FALSE
    ELSE \E i \in 1 .. Len(flt.Sortable) : flt.Sortable[i] = field

\* Filter.isSortable
isSortable(flt, field) ==
    IF TrimSpace(field) = <<>> THEN FALSE
    ELSE IF field \in AlwaysSortable THEN TRUE
    ELSE IF Len(flt.Sortable) = 0 THEN FALSE
    ELSE \E i \in 1 .. Len(flt.Sortable) : flt.Sortable[i] = field

\* the body of the sort loop of ApplySortAndPagination for one piece
SortStep(flt, st, piece) ==
    LET s == TrimSpace(piece)
        desc == HasPrefix(s, Minus)
        order == IF desc THEN "DESC" ELSE "ASC"
        field == IF desc THEN TrimPrefix(s, Minus) ELSE s
    IN  IF s = <<>> THEN st
        ELSE IF isSortable(flt, field)
        THEN Emit(flt, st, Order(field, order),
                  <<"ORDER ">> \o field \o <<Space, order>>, <<Nil>>)
        ELSE st

RECURSIVE SortLoop(_, _, _)
\* ApplySortAndPagination, the loop over strings.Split(f.Sort, ",")
SortLoop(flt, st, pieces) ==
    IF pieces = <<>> THEN st
    ELSE SortLoop(flt, SortStep(flt, st, Head(pieces)), Tail(pieces))

DefaultPage == 1

DefaultPageSize == 10

MaxPageSize == 500

\* ApplySortAndPagination, f.Page after the normalisation
NormPage(page) == IF LeZero(page) THEN I64(DefaultPage) ELSE page

\* ApplySortAndPagination, f.PageSize after the normalisation
NormPageSize(pageSize) ==
    LET ps == IF LeZero(pageSize) THEN I64(DefaultPageSize) ELSE pageSize
    IN  IF GtLit(ps, MaxPageSize) THEN I64(MaxPageSize) ELSE ps

\* offset := (f.Page - 1) * f.PageSize, in the machine's int arithmetic
OffsetOf(page, pageSize) == MulLit(Dec(page), Lit(pageSize))

\* Filter.ApplySortAndPagination(db): the chain it returns and the fields
\* of f it leaves changed.  The dry run behind f.finalSQL executes nothing;
\* of its text the model keeps only that it was rendered.
ApplySortAndPagination(flt, db) ==
    LET st0 == [db |-> db, rec |-> flt.sqlRecords]
        st1 == IF flt.Sort # <<>>
               THEN SortLoop(flt, st0, Split(flt.Sort, Comma))
               ELSE st0
        page == NormPage(flt.Page)
        pageSize == NormPageSize(flt.PageSize)
        offset == OffsetOf(page, pageSize)
    IN  [db |-> st1.db \o <<Offset(offset), Limit(pageSize)>>,
         rec |-> recordSQL(flt, st1.rec, <<"Pagination">>, <<>>,
                           <<page, pageSize>>),
         Page |-> page,
         PageSize |-> pageSize,
         finalSQL |-> IF flt.Debug THEN "preview" ELSE flt.finalSQL]

(***************************************************************************)
(* The Filters a caller may hand in.  Every field of the struct is drawn   *)
(* from a set that holds the shapes the code tells apart; FilterSpace      *)
(* varies a few fields at a time around the zero value Filter{}.           *)
(***************************************************************************)
MaxSortTokens == 2

MaxElems == 3

MaxJoins == 2

MaxRows == 3

MaxId == 2

vInt == Scalar("int", "1")

vStr == Scalar("string", "active")

vFloat == Scalar("float64", "1")

\* a []interface{} of n elements
AnySlice(n) == Slice("[]interface{}", [i \in 1 .. n |-> vFloat])

\* a []string of n elements
StringSlice(n) == Slice("[]string", [i \in 1 .. n |-> vStr])

\* the operator keys applyComplexCondition knows
OperatorKeys ==
    {"eq", "neq", "gt", "gte", "lt", "lte", "like", "in", "between"}

\* operator keys a caller may send: the known ones and two unknown ones
SentKeys == OperatorKeys \cup {"regex", "EQ"}

\* operands of a nested operator in a map built in Go
GoOperands ==
    {vInt, vStr, Nil, StringSlice(2), Slice("[]int", <<vInt, vInt>>)}
        \cup {AnySlice(n) : n \in 0 .. MaxElems}

\* f.Filters: maps built by the business logic, of any Go value
StaticFilters ==
    {NoMap,
     "status" :> vStr,
     "age" :> vInt,
     "age" :> vFloat,
     "vip" :> Scalar("bool", "true"),
     "age" :> Scalar("int64", "1"),
     "status" :> Nil,
     "status" :> StringSlice(2),
     "age" :> Slice("[]int", <<vInt, vInt>>),
     "age" :> MapVal("gt" :> vInt @@ "lt" :> vInt),
     "age" :> MapVal("gte" :> vInt @@ "regex" :> vStr),
     "age" :> MapVal("between" :> AnySlice(2) @@ "neq" :> vInt),
     "status" :> vStr @@ "age" :> vInt,
     "secret" :> vStr @@ "status" :> vStr,
     "roles.name" :> vStr @@ "age" :> MapVal("gt" :> vInt @@ "lte" :> vInt)}
        \cup {"age" :> AnySlice(n) : n \in 0 .. MaxElems}
        \cup {"age" :> MapVal(op :> v) : op \in SentKeys, v \in GoOperands}

\* the tokens of {"field": <value>}
Obj(field, value) == <<LBrace, Str(field), Colon>> \o value \o <<RBrace>>

\* the tokens of a JSON array of n numbers
Arr(n) ==
    <<LBrack>>
        \o [i \in 1 .. (2 * n - 1) |-> IF i % 2 = 1 THEN Num("1") ELSE Sep]
        \o <<RBrack>>

\* f.QueryStr: what a client may put in the URL
QueryStrs ==
    {<<>>,
     <<LBrace, RBrace>>,
     <<JNull>>,
     <<Junk>>,
     <<Str("age")>>,
     <<Num("1")>>,
     Arr(2),
     <<LBrace>>,
     <<LBrace, Str("age"), Colon, Num("1")>>,
     <<LBrace, Str("age"), Num("1"), RBrace>>,
     <<LBrace, Str("age"), Colon, Num("1"), Sep, RBrace>>,
     <<LBrace, Str("age"), Colon, Num("1"), RBrace, RBrace>>,
     Obj("age", <<Num("1")>>),
     Obj("status", <<Str("active")>>),
     Obj("vip", <<JTrue>>),
     Obj("status", <<JNull>>),
     Obj("secret", <<Num("1")>>),
     Obj("age", <<LBrace, RBrace>>),
     <<LBrace, Str("status"), Colon, Str("active"), Sep,
       Str("age"), Colon, Num("1"), RBrace>>,
     <<LBrace, Str("age"), Colon, Num("1"), Sep,
       Str("age"), Colon, Str("x"), RBrace>>,
     Obj("age", <<LBrace, Str("gt"), Colon, Num("1"), Sep,
                  Str("lt"), Colon, Num("9"), RBrace>>),
     Obj("age", <<LBrace, Str("like"), Colon, Num("1"), Sep,
                  Str("regex"), Colon, Num("9"), RBrace>>),
     Obj("age", <<LBrace, Str("between"), Colon, Num("1"), RBrace>>),
     Obj("age", <<LBrace, Str("between"), Colon, Str("1,9"), RBrace>>)}
        \cup {Obj("age", Arr(n)) : n \in 0 .. MaxElems}
        \cup {Obj("age", <<LBrace, Str("between"), Colon>> \o Arr(n)
                             \o <<RBrace>>) : n \in 0 .. MaxElems}
        \cup {Obj("age", <<LBrace, Str(op), Colon, Num("1"), RBrace>>) :
                 op \in SentKeys}

\* f.Filterable
Filterables == {<<>>, <<"age">>, <<"status", "age">>}

\* the pieces a Sort string is made of, between its commas
SortTokens ==
    {<<>>,
     <<Minus>>,
     <<Minus, "id">>,
     <<Space, "id", Space>>,
     <<"name">>,
     <<Minus, Space, "name">>,
     <<Minus, "created_at">>,
     <<"updated_at">>}

RECURSIVE JoinTokens(_)
\* the pieces joined with commas
JoinTokens(ts) ==
    IF ts = <<>> THEN <<>>
    ELSE IF Len(ts) = 1 THEN ts[1]
    ELSE ts[1] \o <<Comma>> \o JoinTokens(Tail(ts))

\* f.Sort
SortStrings ==
    {JoinTokens(ts) :
        ts \in UNION {[1 .. n -> SortTokens] : n \in 0 .. MaxSortTokens}}

\* f.Sortable; the last holds the empty string and a name with a space
Sortables ==
    {<<>>,
     <<<<"name">>>>,
     <<<<>>, <<"name">>, <<Space, "name">>>>}

\* f.Page
Pages ==
    {I64(-1), I64(0), I64(1), I64(2), I64(3), <<0, 0, 0, 1>>,
     MaxInt64, MinInt64}

\* f.PageSize
PageSizes ==
    {I64(-1), I64(0), I64(1), I64(2), I64(DefaultPageSize),
     I64(MaxPageSize), I64(MaxPageSize + 1), MaxInt64, MinInt64}

JoinConfig(table, on, joinType) ==
    [Table |-> table, On |-> on, JoinType |-> joinType]

\* the JoinConfig values a caller declares
JoinConfigs ==
    {JoinConfig("roles", "users.role_id = roles.id", "left"),
     JoinConfig("depts", "users.dept_id = depts.id", "LEFT"),
     JoinConfig("teams", "users.team_id = teams.id", "inner"),
     JoinConfig("orgs", "users.org_id = orgs.id", "")}

\* f.Joins
JoinLists == UNION {[1 .. n -> JoinConfigs] : n \in 0 .. MaxJoins}

\* Filter{}: the zero value of the struct
ZeroFilter ==
    [Filterable |-> <<>>, QueryStr |-> <<>>, Filters |-> NoMap,
     Sortable |-> <<>>, Sort |-> <<>>, Page |-> I64(0), PageSize |-> I64(0),
     Unscoped |-> FALSE, Joins |-> <<>>, sqlRecords |-> <<>>,
     Debug |-> FALSE, finalSQL |-> ""]

\* the Filters the model hands to the listing functions
FilterSpace ==
    {[ZeroFilter EXCEPT !.Filters = c, !.Filterable = a, !.Debug = d] :
        c \in StaticFilters, a \in Filterables, d \in BOOLEAN}
    \cup
    {[ZeroFilter EXCEPT !.QueryStr = q, !.Filterable = a, !.Debug = d] :
        q \in QueryStrs, a \in Filterables, d \in BOOLEAN}
    \cup
    {[ZeroFilter EXCEPT !.Sort = s, !.Sortable = a, !.Debug = TRUE] :
        s \in SortStrings, a \in Sortables}
    \cup
    {[ZeroFilter EXCEPT !.Page = p, !.PageSize = ps, !.Sort = s] :
        p \in Pages, ps \in PageSizes, s \in {<<>>, <<"name">>}}
    \cup
    {[ZeroFilter EXCEPT !.Joins = j, !.Unscoped = u, !.Debug = d,
                        !.Filters = c] :
        j \in JoinLists, u \in BOOLEAN, d \in BOOLEAN,
        c \in {NoMap, "roles.name" :> vStr}}
    \cup
    {[ZeroFilter EXCEPT !.Unscoped = TRUE, !.Debug = TRUE,
                        !.Joins = <<JoinConfig("roles", "users.role_id = roles.id", "left")>>,
                        !.Filters = c, !.QueryStr = q, !.Filterable = a,
                        !.Sort = s, !.Page = I64(2), !.PageSize = I64(2)] :
        c \in {"status" :> vStr @@ "age" :> vInt, "secret" :> vStr},
        q \in {Obj("age", <<LBrace, Str("gt"), Colon, Num("1"), Sep,
                            Str("lt"), Colon, Num("9"), RBrace>>),
               <<LBrace>>,
               Obj("status", <<Str("active")>>)},
        a \in Filterables,
        s \in {<<>>, <<Minus, "created_at", Comma, "name">>}}

(***************************************************************************)
(* The storage collaborator (gorm over the table of T).                    *)
(***************************************************************************)
\* the error of a failed storage call
StorageError == "storage error"

\* gorm.ErrRecordNotFound
ErrRecordNotFound == "record not found"

\* errors.New("id cannot be zero")
ErrIdZero == "id cannot be zero"

\* the last clause of the given kind in the chain, 0 when there is none
LastOf(db, kind) ==
    LET I == {i \in 1 .. Len(db) : db[i].kind = kind}
    IN  IF I = {} THEN 0 ELSE CHOOSE i \in I : \A j \in I : j <= i

\* queryDB.Find(&result) over n rows that match the joins and predicates of
\* the chain, numbered in the order of its ORDER clauses: gorm renders
\* OFFSET only when it is positive, and LIMIT when it is not negative
FindRows(db, n) ==
    LET o == LastOf(db, "Offset")
        l == LastOf(db, "Limit")
        skip == IF o = 0 \/ LeZero(db[o].n) THEN 0
                ELSE IF IsLit(db[o].n) /\ Lit(db[o].n) < n THEN Lit(db[o].n)
                ELSE n
        take == IF l = 0 \/ IsNeg(db[l].n) THEN n
                ELSE IF IsLit(db[l].n) /\ Lit(db[l].n) < n THEN Lit(db[l].n)
                ELSE n
        last == IF skip + take < n THEN skip + take ELSE n
    IN  [i \in 1 .. (last - skip) |-> skip + i]

\* one storage call as the log of the request keeps it: the chain it ran
\* on, the error it answered with ("" for none) and the count it stored
Call(name, db, err, n) == [call |-> name, plan |-> db, err |-> err, n |-> n]

\* a row of the table of T; soft is a set deleted_at
Row(present, soft, flag, name) ==
    [present |-> present, soft |-> soft, is_deleted |-> flag, name |-> name]

NoRow == Row(FALSE, FALSE, 0, "")

\* the rows a statement of the default scope sees
Visible(rows, id) == id \in DOMAIN rows /\ rows[id].present /\ ~rows[id].soft

(***************************************************************************)
(* State.                                                                  *)
(*   pc       the line the listing call in progress is at, "idle" when     *)
(*            none is                                                      *)
(*   op       the listing function in progress or last called              *)
(*   input    the Filter as the caller built it for this request           *)
(*   f        the Filter the call works on (mutated in place)              *)
(*   db       queryDB, the chain of clauses                                *)
(*   calls    the storage calls the current request has issued, each with  *)
(*            the chain it ran on                                          *)
(*   ret      what the last call returned                                  *)
(*   matched  the number of rows that match the joins and predicates of    *)
(*            the chain, as the Count or Find call found it                *)
(*   runs     how many times the caller has sent this input                *)
(*   first    chain and trace of the first compilation of this input       *)
(*   store    the rows of the table, by id                                 *)
(***************************************************************************)
VARIABLES pc, op, input, f, db, calls, ret, matched, runs, first, store

vars == <<pc, op, input, f, db, calls, ret, matched, runs, first, store>>

NoRet ==
    [returned |-> FALSE, op |-> "", id |-> 0, err |-> "", rows |-> <<>>,
     total |-> 0, page |-> <<>>, pageSize |-> <<>>]

\* the values a listing function returns
ListRet(o, rows, total, page, pageSize, err) ==
    [returned |-> TRUE, op |-> o, id |-> 0, err |-> err, rows |-> rows,
     total |-> total, page |-> page, pageSize |-> pageSize]

\* the values a by-id function returns
IdRet(o, id, rows, err) ==
    [returned |-> TRUE, op |-> o, id |-> id, err |-> err, rows |-> rows,
     total |-> 0, page |-> <<>>, pageSize |-> <<>>]

NoFirst == [set |-> FALSE, db |-> <<>>, rec |-> <<>>]

Init ==
    /\ pc = "idle"
    /\ op = ""
    /\ input = ZeroFilter
    /\ f = ZeroFilter
    /\ db = <<>>
    /\ calls = <<>>
    /\ ret = NoRet
    /\ matched = 0
    /\ runs = 0
    /\ first = NoFirst
    /\ store = [i \in 1 .. MaxId |-> NoRow]

\* the start of a listing call: queryDB is db.Model(new(T)), no clause yet
Begin(o, flt) ==
    /\ op' = o
    /\ f' = flt
    /\ db' = <<>>
    /\ calls' = <<>>
    /\ ret' = NoRet
    /\ matched' = 0
    /\ pc' = "PaginationQuery"
    /\ UNCHANGED store

\* baseRepository.ListPagination(f) -> QueryWithPagination(db, f), entered
ListPagination ==
    /\ pc = "idle"
    /\ ~ret.returned
    /\ \E flt \in FilterSpace :
          /\ Begin("QueryWithPagination", flt)
          /\ input' = flt
    /\ runs' = 1
    /\ first' = NoFirst

\* baseRepository.ListByFilter(f) -> QueryWithFilter(db, f), entered
ListByFilter ==
    /\ pc = "idle"
    /\ ~ret.returned
    /\ \E flt \in FilterSpace :
          /\ Begin("QueryWithFilter", flt)
          /\ input' = flt
    /\ runs' = 1
    /\ first' = NoFirst

\* the caller sends the same request a second time, with a Filter equal to
\* the one it built before
ListAgain ==
    /\ pc = "idle"
    /\ ret.returned
    /\ ret.op \in {"QueryWithPagination", "QueryWithFilter"}
    /\ runs = 1
    /\ Begin(op, input)
    /\ runs' = runs + 1
    /\ UNCHANGED <<input, first>>

\* the caller is done with the request: the Filter and what was returned
\* are dropped
Discard ==
    /\ pc = "idle"
    /\ ret.returned
    /\ op' = ""
    /\ input' = ZeroFilter
    /\ f' = ZeroFilter
    /\ db' = <<>>
    /\ calls' = <<>>
    /\ ret' = NoRet
    /\ matched' = 0
    /\ runs' = 0
    /\ first' = NoFirst
    /\ UNCHANGED <<pc, store>>

\* queryDB := f.PaginationQuery(db.Model(new(T)))
DoPaginationQuery ==
    /\ pc = "PaginationQuery"
    /\ \E oF \in Orders(f.Filters), iF \in InnerOrders(f.Filters),
          oQ \in Orders(QueryMap(f)), iQ \in InnerOrders(QueryMap(f)) :
          LET r == PaginationQuery(f, db, oF, iF, oQ, iQ)
          IN  /\ db' = r.db
              /\ f' = [f EXCEPT !.sqlRecords = r.rec]
    /\ pc' = IF op = "QueryWithPagination" THEN "Count"
             ELSE "ApplySortAndPagination"
    /\ UNCHANGED <<op, input, calls, ret, matched, runs, first, store>>

\* QueryWithPagination after Count, without the count == 0 return
AfterCountNoShortCircuit(err, n) ==
    IF err # "" THEN "return err" ELSE "ApplySortAndPagination"

\* QueryWithPagination, lines 292-298: where the call goes after Count
AfterCount(err, n) ==
    IF err # "" THEN "return err"
    ELSE IF n = 0 THEN "return empty"
    ELSE "ApplySortAndPagination"

\* queryDB.Count(&count) and the two early returns behind it
DoCount ==
    /\ pc = "Count"
    /\ \E err \in {"", StorageError}, n \in 0 .. MaxRows :
          LET next == AfterCount(err, n)
          IN  /\ calls' = Append(calls, Call("Count", db, err,
                                            IF err = "" THEN n ELSE 0))
              /\ matched' = IF err = "" THEN n ELSE 0
              /\ CASE next = "return err" ->
                          /\ ret' = ListRet(op, <<>>, 0, f.Page, f.PageSize, err)
                          /\ pc' = "idle"
                   [] next = "return empty" ->
                          /\ ret' = ListRet(op, <<>>, 0, f.Page, f.PageSize, "")
                          /\ pc' = "idle"
                   [] OTHER ->
                          /\ ret' = ret
                          /\ pc' = next
    /\ UNCHANGED <<op, input, f, db, runs, first, store>>

\* queryDB = f.ApplySortAndPagination(queryDB)
DoApplySortAndPagination ==
    /\ pc = "ApplySortAndPagination"
    /\ LET r == ApplySortAndPagination(f, db)
       IN  /\ db' = r.db
           /\ f' = [f EXCEPT !.sqlRecords = r.rec, !.Page = r.Page,
                             !.PageSize = r.PageSize,
                             !.finalSQL = r.finalSQL]
           /\ first' = IF first.set THEN first
                       ELSE [set |-> TRUE, db |-> r.db, rec |-> r.rec]
    /\ pc' = "Find"
    /\ UNCHANGED <<op, input, calls, ret, matched, runs, store>>

\* QueryWithPagination, lines 302-306: queryDB.Find(&result) and the return
FindPaginated ==
    /\ pc = "Find"
    /\ op = "QueryWithPagination"
    /\ \E err \in {"", StorageError} :
          /\ calls' = Append(calls, Call("Find", db, err, 0))
          /\ ret' = IF err # ""
                    THEN ListRet(op, <<>>, 0, f.Page, f.PageSize, err)
                    ELSE ListRet(op, FindRows(db, matched), matched, f.Page,
                                 f.PageSize, "")
    /\ pc' = "idle"
    /\ UNCHANGED <<op, input, f, db, matched, runs, first, store>>

\* QueryWithFilter, lines 319-323: queryDB.Find(&result) and the return;
\* n rows of the table match the joins and predicates of the chain
FindFiltered ==
    /\ pc = "Find"
    /\ op = "QueryWithFilter"
    /\ \E err \in {"", StorageError}, n \in 0 .. MaxRows :
          /\ calls' = Append(calls, Call("Find", db, err, 0))
          /\ matched' = n
          /\ ret' = IF err # ""
                    THEN ListRet(op, <<>>, 0, <<>>, <<>>, err)
                    ELSE ListRet(op, FindRows(db, n), 0, <<>>, <<>>, "")
    /\ pc' = "idle"
    /\ UNCHANGED <<op, input, f, db, runs, first, store>>

Next ==
    \/ ListPagination
    \/ ListByFilter
    \/ ListAgain
    \/ Discard
    \/ DoPaginationQuery
    \/ DoCount
    \/ DoApplySortAndPagination
    \/ FindPaginated
    \/ FindFiltered

Spec == Init /\ [][Next]_vars

(***************************************************************************)
(* The by-id functions and Created.  Each is one call: out is what the     *)
(* call returns, log the storage calls it issued, rows the table after it. *)
(* fail says whether the storage call, if one is issued, fails.            *)
(***************************************************************************)
Outcome(out, log, rows) == [ret |-> out, calls |-> log, store |-> rows]

\* GetInfoById without the id == 0 check
GetInfoByIdUnchecked(rows, id, fail) ==
    IF fail
    THEN Outcome(IdRet("GetInfoById", id, <<>>, StorageError),
                 <<Call("Last", <<>>, StorageError, 0)>>, rows)
    ELSE IF Visible(rows, id)
    THEN Outcome(IdRet("GetInfoById", id, <<id>>, ""),
                 <<Call("Last", <<>>, "", 0)>>, rows)
    ELSE Outcome(IdRet("GetInfoById", id, <<>>, ErrRecordNotFound),
                 <<Call("Last", <<>>, ErrRecordNotFound, 0)>>, rows)

\* GetInfoById[T](db, id)
GetInfoById(rows, id, fail) ==
    IF id = 0
    THEN Outcome(IdRet("GetInfoById", id, <<>>, ErrIdZero), <<>>, rows)
    ELSE IF fail
    THEN Outcome(IdRet("GetInfoById", id, <<>>, StorageError),
                 <<Call("Last", <<>>, StorageError, 0)>>, rows)
    ELSE IF Visible(rows, id)
    THEN Outcome(IdRet("GetInfoById", id, <<id>>, ""),
                 <<Call("Last", <<>>, "", 0)>>, rows)
    ELSE Outcome(IdRet("GetInfoById", id, <<>>, ErrRecordNotFound),
                 <<Call("Last", <<>>, ErrRecordNotFound, 0)>>, rows)

\* the row after Updates(updates): the columns named in the map are set
Updated(row, updates) ==
    IF "name" \in DOMAIN updates THEN [row EXCEPT !.name = updates["name"]]
    ELSE row

\* UpdateByIdWithMap[T](db, id, updates)
UpdateByIdWithMap(rows, id, updates, fail) ==
    IF id = 0
    THEN Outcome(IdRet("UpdateByIdWithMap", id, <<>>, ErrIdZero), <<>>, rows)
    ELSE IF fail
    THEN Outcome(IdRet("UpdateByIdWithMap", id, <<>>, StorageError),
                 <<Call("Updates", <<>>, StorageError, 0)>>, rows)
    ELSE IF ~Visible(rows, id)
    THEN Outcome(IdRet("UpdateByIdWithMap", id, <<>>, ErrRecordNotFound),
                 <<Call("Updates", <<>>, "", 0)>>, rows)
    ELSE Outcome(IdRet("UpdateByIdWithMap", id, <<>>, ""),
                 <<Call("Updates", <<>>, "", 0)>>,
                 [rows EXCEPT ![id] = Updated(@, updates)])

\* SoftDeleteById[T](db, id): db.Delete sets deleted_at
SoftDeleteById(rows, id, fail) ==
    IF id = 0
    THEN Outcome(IdRet("SoftDeleteById", id, <<>>, ErrIdZero), <<>>, rows)
    ELSE IF fail
    THEN Outcome(IdRet("SoftDeleteById", id, <<>>, StorageError),
                 <<Call("Delete", <<>>, StorageError, 0)>>, rows)
    ELSE IF ~Visible(rows, id)
    THEN Outcome(IdRet("SoftDeleteById", id, <<>>, ErrRecordNotFound),
                 <<Call("Delete", <<>>, "", 0)>>, rows)
    ELSE Outcome(IdRet("SoftDeleteById", id, <<>>, ""),
                 <<Call("Delete", <<>>, "", 0)>>,
                 [rows EXCEPT ![id].soft = TRUE])

\* DeleteById[T](db, id): UpdateColumn("is_deleted", 1)
DeleteById(rows, id, fail) ==
    IF id = 0
    THEN Outcome(IdRet("DeleteById", id, <<>>, ErrIdZero), <<>>, rows)
    ELSE IF fail
    THEN Outcome(IdRet("DeleteById", id, <<>>, StorageError),
                 <<Call("UpdateColumn", <<>>, StorageError, 0)>>, rows)
    ELSE IF ~Visible(rows, id)
    THEN Outcome(IdRet("DeleteById", id, <<>>, ErrRecordNotFound),
                 <<Call("UpdateColumn", <<>>, "", 0)>>, rows)
    ELSE Outcome(IdRet("DeleteById", id, <<>>, ""),
                 <<Call("UpdateColumn", <<>>, "", 0)>>,
                 [rows EXCEPT ![id].is_deleted = 1])

\* Created[T](db, m): the row is inserted under a free id
Created(rows, id, name, fail) ==
    IF fail
    THEN Outcome(IdRet("Created", id, <<>>, StorageError),
                 <<Call("Create", <<>>, StorageError, 0)>>, rows)
    ELSE Outcome(IdRet("Created", id, <<>>, ""),
                 <<Call("Create", <<>>, "", 0)>>,
                 [rows EXCEPT ![id] = Row(TRUE, FALSE, 0, name)])

\* the ids a caller passes: 0 and the ids of the table
Ids == 0 .. MaxId

\* the updates maps a caller passes
UpdateMaps == {NoMap, "name" :> "b"}

\* a by-id call returns: its values, its storage calls, the table after it
Return(o) ==
    /\ ret' = o.ret
    /\ calls' = o.calls
    /\ store' = o.store
    /\ UNCHANGED <<pc, op, input, f, db, matched, runs, first>>

\* baseRepository.GetInfoById(id)
CallGetInfoById ==
    /\ pc = "idle"
    /\ \E id \in Ids, fail \in BOOLEAN : Return(GetInfoById(store, id, fail))

\* baseRepository.Create(m)
CallCreate ==
    /\ pc = "idle"
    /\ \E id \in 1 .. MaxId, fail \in BOOLEAN :
          /\ ~store[id].present
          /\ Return(Created(store, id, "a", fail))

\* baseRepository.UpdateById(id, updates)
CallUpdateById ==
    /\ pc = "idle"
    /\ \E id \in Ids, updates \in UpdateMaps, fail \in BOOLEAN :
          Return(UpdateByIdWithMap(store, id, updates, fail))

\* baseRepository.SoftDeleteById(id)
CallSoftDeleteById ==
    /\ pc = "idle"
    /\ \E id \in Ids, fail \in BOOLEAN :
          Return(SoftDeleteById(store, id, fail))

\* baseRepository.DeleteById(id)
CallDeleteById ==
    /\ pc = "idle"
    /\ \E id \in Ids, fail \in BOOLEAN : Return(DeleteById(store, id, fail))

\* the by-id functions and Create, on the table alone
NextById ==
    \/ CallGetInfoById
    \/ CallCreate
    \/ CallUpdateById
    \/ CallSoftDeleteById
    \/ CallDeleteById

SpecById == Init /\ [][NextById]_vars

(***************************************************************************)
(* Properties.                                                             *)
(***************************************************************************)
Range(seq) == {seq[i] : i \in 1 .. Len(seq)}

\* the clauses of one kind, in the order they were applied
Clauses(chain, kind) == SelectSeq(chain, LAMBDA c : c.kind = kind)

\* the predicate clauses that came from one of the two condition maps
Predicates(chain, src) ==
    SelectSeq(chain, LAMBDA c : c.kind = "Where" /\ c.src = src)

\* PaginationQuery has run in the request in progress or just returned
Compiled == op # "" /\ pc # "PaginationQuery"

\* ApplySortAndPagination has run as well
Paginated == LastOf(db, "Limit") # 0

\* the field is on the allow-list of the Filter, or the list is empty
Allowed(flt, field) ==
    flt.Filterable = <<>> \/ field \in Range(flt.Filterable)

\* the fields of a condition map whose value has a shape that always
\* compiles to exactly one clause
PlainFields(m) ==
    {k \in DOMAIN m :
        m[k].t \in {"string", "int", "float64", "bool", "[]interface{}",
                    "[]string"}}

\* C1: every predicate clause of the plan, from the static Filters and from
\* the decoded QueryStr alike, names a field that is on the allow-list or
\* was compiled under an empty allow-list; a field that is not allowed has
\* no clause, an allowed field with a scalar or list value has one, and the
\* only error a listing ever returns is that of a storage call it issued.
C1_AllowList ==
    /\ \A i \in 1 .. Len(db) :
          db[i].kind = "Where" => Allowed(input, db[i].sql[1])
    /\ Compiled =>
          /\ \A k \in PlainFields(input.Filters) :
                Allowed(input, k) <=>
                    \E i \in 1 .. Len(db) :
                        /\ db[i].kind = "Where"
                        /\ db[i].src = "Filters"
                        /\ db[i].sql[1] = k
          /\ \A k \in PlainFields(QueryMap(input)) :
                Allowed(input, k) <=>
                    \E i \in 1 .. Len(db) :
                        /\ db[i].kind = "Where"
                        /\ db[i].src = "QueryStr"
                        /\ db[i].sql[1] = k
    /\ ret.err # "" =>
          /\ calls # <<>>
          /\ calls[Len(calls)].err = ret.err

\* a plan compiled under a non-empty allow-list from Filters and a QueryStr
\* that each hold a listed field, with a field that is not listed
C1_Witness ==
    /\ Compiled
    /\ input.Filterable # <<>>
    /\ \E k \in DOMAIN input.Filters : ~Allowed(input, k)
    /\ Len(Predicates(db, "Filters")) > 0
    /\ Len(Predicates(db, "QueryStr")) > 0

(***************************************************************************)
(* The Sort string as the claim reads it: cut at its commas.               *)
(***************************************************************************)
\* the positions around the pieces: before the string, each comma, after it
Cuts(s) == {0, Len(s) + 1} \cup {i \in 1 .. Len(s) : s[i] = Comma}

\* the k-th cut from the left
Cut(s, k) ==
    CHOOSE c \in Cuts(s) : Cardinality({d \in Cuts(s) : d < c}) = k - 1

\* the k-th comma-separated token
Token(s, k) == SubSeq(s, Cut(s, k) + 1, Cut(s, k + 1) - 1)

TokenCount(s) == Cardinality(Cuts(s)) - 1

\* the token without the white space around it
Trimmed(t) ==
    LET I == {i \in 1 .. Len(t) : t[i] # Space}
    IN  IF I = {} THEN <<>>
        ELSE SubSeq(t, CHOOSE i \in I : \A j \in I : i <= j,
                       CHOOSE i \in I : \A j \in I : j <= i)

\* the token is marked descending
Descending(t) == Trimmed(t) # <<>> /\ Trimmed(t)[1] = Minus

\* the trimmed token with one leading '-' stripped
SortField(t) ==
    IF Descending(t) THEN SubSeq(Trimmed(t), 2, Len(Trimmed(t)))
    ELSE Trimmed(t)

\* the field is one of the three fixed ones or listed in Sortable
Listed(flt, field) ==
    field \in AlwaysSortable \/ field \in Range(flt.Sortable)

\* the ORDER text the k-th token stands for
OrderText(s, k) ==
    SortField(Token(s, k))
        \o <<Space, IF Descending(Token(s, k)) THEN "DESC" ELSE "ASC">>

\* the positions of the tokens in P, as the sequence of their ORDER texts
OrderTexts(s, P) ==
    [n \in 1 .. Cardinality(P) |->
        OrderText(s, CHOOSE k \in P : Cardinality({j \in P : j < k}) = n - 1)]

\* the ORDER clauses of the chain, as their texts
OrdersOf(chain) ==
    LET o == Clauses(chain, "Order") IN [i \in 1 .. Len(o) |-> o[i].sql]

\* C2, as stated, for a Sort string that is not empty: the ORDER clauses of
\* a paginated plan are those of the tokens whose field is id, created_at,
\* updated_at or listed in Sortable, one each, in the order of the tokens,
\* DESC for a '-' token and ASC otherwise.
C2_Original ==
    Paginated /\ input.Sort # <<>> =>
        OrdersOf(db) =
            OrderTexts(input.Sort,
                       {k \in 1 .. TokenCount(input.Sort) :
                           Listed(input, SortField(Token(input.Sort, k)))})

\* C2, amended: as above for the tokens whose field, after trimming and
\* stripping, is not empty; a token with an empty field (an empty token, or
\* a lone '-') has no ORDER clause even when Sortable lists the empty
\* string.  No ORDER clause exists before ApplySortAndPagination has run.
C2_OrderClauses ==
    /\ Paginated =>
          OrdersOf(db) =
              OrderTexts(input.Sort,
                         {k \in 1 .. TokenCount(input.Sort) :
                             /\ SortField(Token(input.Sort, k)) # <<>>
                             /\ Listed(input, SortField(Token(input.Sort, k)))})
    /\ ~Paginated => OrdersOf(db) = <<>>

\* a plan from a Sort of two tokens under a Sortable list, of which the
\* second alone passed, as DESC
C2_Witness ==
    /\ Paginated
    /\ input.Sortable # <<>>
    /\ TokenCount(input.Sort) = 2
    /\ Len(OrdersOf(db)) = 1
    /\ OrdersOf(db)[1] = OrderText(input.Sort, 2)
    /\ Descending(Token(input.Sort, 2))

(***************************************************************************)
(* Stage order.                                                            *)
(***************************************************************************)
\* the stage of the pipeline a clause belongs to
Stage(c) ==
    CASE c.kind = "Unscoped" -> 0
      [] c.kind = "Joins" -> 1
      [] c.kind = "Where" /\ c.src = "Filters" -> 2
      [] c.kind = "Where" /\ c.src = "QueryStr" -> 3
      [] c.kind = "Order" -> 4
      [] c.kind = "Offset" -> 5
      [] c.kind = "Limit" -> 6

\* the stage a trace line reports, read off its description; the text does
\* not tell the two condition maps apart
LineStage(l) ==
    CASE l.desc[1] = "UNSCOPED" -> 0
      [] l.desc[1] \in {"LEFT JOIN ", "INNER JOIN "} -> 1
      [] l.desc[1] = "ORDER " -> 4
      [] l.desc[1] = "Pagination" -> 5
      [] OTHER -> 2

\* the stage of a clause as a trace line can show it
ShownStage(c) ==
    CASE Stage(c) = 3 -> 2
      [] Stage(c) = 6 -> 5
      [] OTHER -> Stage(c)

\* the join text the caller declared
Declared(j) ==
    <<IF j.JoinType \in {"left", "LEFT", "Left"} THEN "LEFT JOIN "
      ELSE "INNER JOIN ", j.Table, " ON ", j.On>>

\* C3: the clauses of every plan are in stage order (Unscoped, joins,
\* predicates of Filters, predicates of QueryStr, ORDER, offset, limit):
\* no clause of an earlier stage follows one of a later stage.  Once
\* PaginationQuery has run, the widening is there exactly when Unscoped is
\* set, and the joins are the declared ones in the declared order.  With
\* Debug on the trace has one line per clause (one for offset and limit
\* together), each of the stage of its clause, so in the same order.
C3_StageOrder ==
    /\ \A i, j \in 1 .. Len(db) : i < j => Stage(db[i]) <= Stage(db[j])
    /\ Compiled =>
          /\ Len(Clauses(db, "Unscoped")) = IF input.Unscoped THEN 1 ELSE 0
          /\ Len(Clauses(db, "Joins")) = Len(input.Joins)
          /\ \A k \in 1 .. Len(input.Joins) :
                Clauses(db, "Joins")[k].sql = Declared(input.Joins[k])
    /\ Paginated =>
          /\ Len(Clauses(db, "Offset")) = 1
          /\ Len(Clauses(db, "Limit")) = 1
    /\ input.Debug /\ Compiled =>
          /\ Len(f.sqlRecords) = Len(db) - (IF Paginated THEN 1 ELSE 0)
          /\ \A i \in 1 .. Len(f.sqlRecords) :
                LineStage(f.sqlRecords[i]) = ShownStage(db[i])
          /\ \A i, j \in 1 .. Len(f.sqlRecords) :
                i < j => LineStage(f.sqlRecords[i]) <= LineStage(f.sqlRecords[j])

\* a traced plan that holds a clause of every stage
C3_Witness ==
    /\ Paginated
    /\ input.Debug
    /\ \A k \in 0 .. 6 : \E i \in 1 .. Len(db) : Stage(db[i]) = k

(***************************************************************************)
(* Pagination.                                                             *)
(***************************************************************************)
\* the page the claim calls effective
EffectivePage(flt) == IF LeZero(flt.Page) THEN I64(1) ELSE flt.Page

\* the page size the claim calls effective
EffectivePageSize(flt) ==
    IF LeZero(flt.PageSize) THEN I64(10)
    ELSE IF GtLit(flt.PageSize, 500) THEN I64(500)
    ELSE flt.PageSize

\* the integer (page - 1) x pageSize, for page >= 1 and 1 <= pageSize <= 500,
\* in limbs: not cut to the width of an int
Product(page, pageSize) == MulLimbs(Dec(page), Lit(pageSize), 0)

\* the int x is the integer p
Denotes(x, p) == ~IsNeg(x) /\ p = x \o <<0>>

\* C4, as stated: after ApplySortAndPagination f.Page and f.PageSize are the
\* effective values, the plan's offset is (page - 1) x pageSize and its
\* limit is pageSize, whatever Sort is.
C4_Original ==
    Paginated =>
        /\ f.Page = EffectivePage(input)
        /\ f.PageSize = EffectivePageSize(input)
        /\ Denotes(Clauses(db, "Offset")[1].n,
                   Product(EffectivePage(input), EffectivePageSize(input)))
        /\ Clauses(db, "Limit")[1].n = EffectivePageSize(input)

\* what holds of the code: the same, with the offset equal to the product
\* only as far as the product fits an int, and equal to its low 64 bits
\* always
C4_UpToOverflow ==
    Paginated =>
        LET p == Product(EffectivePage(input), EffectivePageSize(input))
            o == Clauses(db, "Offset")[1].n
        IN  /\ f.Page = EffectivePage(input)
            /\ f.PageSize = EffectivePageSize(input)
            /\ Clauses(db, "Limit")[1].n = EffectivePageSize(input)
            /\ o = SubSeq(p, 1, 4)
            /\ (p[5] = 0 /\ p[4] < SignLimb) => Denotes(o, p)

\* the product has left the range of an int and the offset is negative
C4_OverflowSeen ==
    /\ Paginated
    /\ IsNeg(Clauses(db, "Offset")[1].n)

(***************************************************************************)
(* Malformed input.                                                        *)
(***************************************************************************)
\* the predicate text of a known operator key other than between
OperatorText(o) ==
    CASE o = "eq" -> " = ?"
      [] o = "neq" -> " != ?"
      [] o = "gt" -> " > ?"
      [] o = "gte" -> " >= ?"
      [] o = "lt" -> " < ?"
      [] o = "lte" -> " <= ?"
      [] o = "like" -> " LIKE ?"
      [] o = "in" -> " IN (?)"

\* the allowed fields of map m whose value has one of the types
Typed(flt, m, types) == {k \in DOMAIN m : Allowed(flt, k) /\ m[k].t \in types}

\* the (field, predicate) pairs the well-formed conditions of map m stand
\* for; seqs are the types that count as a sequence for between
Conditions(flt, m, seqs) ==
    {<<k, " = ?">> : k \in Typed(flt, m, {"string", "int", "float64", "bool"})}
    \cup
    {<<k, " IN (?)">> : k \in Typed(flt, m, {"[]interface{}", "[]string"})}
    \cup
    UNION {{<<k, OperatorText(o)>> :
               o \in DOMAIN m[k].m \cap (OperatorKeys \ {"between"})} :
           k \in Typed(flt, m, {"map[string]interface{}"})}
    \cup
    {<<k, " BETWEEN ? AND ?">> :
        k \in {x \in Typed(flt, m, {"map[string]interface{}"}) :
                  /\ "between" \in DOMAIN m[x].m
                  /\ m[x].m["between"].t \in seqs
                  /\ Len(m[x].m["between"].elems) = 2}}

\* the predicates compiled from one condition map are exactly the given
\* pairs, one clause each
Emits(src, pairs) ==
    LET w == Predicates(db, src)
    IN  /\ Len(w) = Cardinality(pairs)
        /\ {<<w[i].sql[1], w[i].sql[2]>> : i \in 1 .. Len(w)} = pairs

AnySequence == {"[]interface{}", "[]string", "[]int"}

\* C5, as stated: the plan holds one clause for every well-formed condition
\* and none for anything else: none for a QueryStr that is no JSON object,
\* for an unknown operator key, or for a between whose operand is not a
\* sequence of two elements, and one range clause for a between whose
\* operand is a sequence of two elements; no such input is an error.
C5_Original ==
    /\ Compiled =>
          /\ Emits("Filters", Conditions(input, input.Filters, AnySequence))
          /\ Emits("QueryStr", Conditions(input, QueryMap(input), AnySequence))
    /\ ret.err # "" => calls # <<>> /\ calls[Len(calls)].err = ret.err

\* what holds of the code: the same with a between operand counted as a
\* sequence only when it is a []interface{}, as a decoded JSON array is
C5_DecodedOperands ==
    /\ Compiled =>
          /\ Emits("Filters",
                   Conditions(input, input.Filters, {"[]interface{}"}))
          /\ Emits("QueryStr",
                   Conditions(input, QueryMap(input), {"[]interface{}"}))
    /\ ret.err # "" => calls # <<>> /\ calls[Len(calls)].err = ret.err

\* a QueryStr that is no JSON object went through PaginationQuery
C5_MalformedSeen ==
    /\ Compiled
    /\ input.QueryStr # <<>>
    /\ Unmarshal(input.QueryStr).err # ""
    /\ pc = "idle"
    /\ ret.err = ""

(***************************************************************************)
(* The listing functions.                                                  *)
(***************************************************************************)
\* C6: a paginated listing issues Count first, on the chain PaginationQuery
\* built, which holds no ORDER, offset or limit clause; a Count that
\* answers 0 without error ends the call at once with no rows, total 0 and
\* no error; Find is issued only after a Count that answered more than 0
\* without error, on that chain extended; nothing else is issued.
C6_CountFirst ==
    op = "QueryWithPagination" =>
        /\ Len(calls) <= 2
        /\ Len(calls) >= 1 =>
              /\ calls[1].call = "Count"
              /\ \A i \in 1 .. Len(calls[1].plan) : Stage(calls[1].plan[i]) <= 3
              /\ pc = "ApplySortAndPagination" => calls[1].plan = db
              /\ (calls[1].err = "" /\ calls[1].n = 0) =>
                    /\ Len(calls) = 1
                    /\ pc = "idle"
                    /\ ret = ListRet(op, <<>>, 0, f.Page, f.PageSize, "")
        /\ pc \in {"ApplySortAndPagination", "Find"} => Len(calls) = 1
        /\ Len(calls) = 2 =>
              /\ calls[2].call = "Find"
              /\ calls[1].err = ""
              /\ calls[1].n > 0
              /\ SubSeq(calls[2].plan, 1, Len(calls[1].plan)) = calls[1].plan
              /\ Paginated

\* a paginated listing returned after a Count of 0 over a plan with
\* predicates
C6_Witness ==
    /\ op = "QueryWithPagination"
    /\ ret.returned
    /\ Len(calls) = 1
    /\ calls[1].err = ""
    /\ calls[1].n = 0
    /\ Len(calls[1].plan) > 0
    /\ input.Sort # <<>>

\* C7, as stated: whatever path a paginated listing returns on, the page it
\* reports is at least 1 and the page size is within 1 .. 500.
C7_Original ==
    (ret.returned /\ ret.op = "QueryWithPagination") =>
        /\ ~LeZero(ret.page)
        /\ ~LeZero(ret.pageSize)
        /\ ~GtLit(ret.pageSize, 500)

\* what holds of the code: the reported values are the effective ones on
\* the paths through ApplySortAndPagination, and the caller's own on the
\* two returns before it
C7_AfterFetchOnly ==
    (ret.returned /\ ret.op = "QueryWithPagination") =>
        IF Len(calls) = 2
        THEN /\ ret.page = EffectivePage(input)
             /\ ret.pageSize = EffectivePageSize(input)
        ELSE /\ ret.page = input.Page
             /\ ret.pageSize = input.PageSize

\* the rows 1 .. n
AllRows(n) == [i \in 1 .. n |-> i]

\* C8, as stated: a filtered listing issues one Find and no Count, and when
\* the Find succeeds it returns every row that matches the joins and
\* conditions of the Filter.
C8_Original ==
    (ret.returned /\ ret.op = "QueryWithFilter") =>
        /\ Len(calls) = 1
        /\ calls[1].call = "Find"
        /\ ret.err = "" => ret.rows = AllRows(matched)

\* what holds of the code: one Find, no Count, and the rows of one page
C8_OnePage ==
    (ret.returned /\ ret.op = "QueryWithFilter") =>
        /\ Len(calls) = 1
        /\ calls[1].call = "Find"
        /\ Paginated
        /\ ret.err = "" =>
              /\ Len(ret.rows) <= Lit(EffectivePageSize(input))
              /\ ret.rows = FindRows(calls[1].plan, matched)

\* C10, as stated: a second compilation of an equal Filter yields the same
\* sequence of clauses and the same sequence of trace lines as the first.
C10_Original ==
    (first.set /\ runs > 1 /\ pc = "Find") =>
        /\ db = first.db
        /\ f.sqlRecords = first.rec

\* the clauses of a chain that differ from clause c in nothing
Copies(chain, c) == Cardinality({i \in 1 .. Len(chain) : chain[i] = c})

\* what holds of the code: the two compilations yield the same clauses, each
\* as often, stage by stage, and the same number of trace lines
C10_SameClauses ==
    (first.set /\ runs > 1 /\ pc = "Find") =>
        /\ Len(db) = Len(first.db)
        /\ \A i \in 1 .. Len(db) :
              /\ Copies(db, db[i]) = Copies(first.db, db[i])
              /\ Stage(db[i]) = Stage(first.db[i])
        /\ Len(f.sqlRecords) = Len(first.rec)

(***************************************************************************)
(* The by-id functions.                                                    *)
(***************************************************************************)
ByIdFunctions ==
    {"GetInfoById", "UpdateByIdWithMap", "DeleteById", "SoftDeleteById"}

\* C9: a call of GetInfoById, UpdateByIdWithMap, DeleteById or
\* SoftDeleteById with id 0 returns the error "id cannot be zero", issues
\* no storage call and leaves every row of the table as it was.
C9_ZeroId ==
    [][(ret'.returned /\ ret'.op \in ByIdFunctions /\ ret'.id = 0) =>
          /\ ret'.err = ErrIdZero
          /\ calls' = <<>>
          /\ store' = store]_vars

\* UpdateByIdWithMap returned for id 0 with a non-empty updates map, or any
\* other by-id function for id 0, over a table that holds a row
C9_Witness ==
    /\ ret.returned
    /\ ret.op \in ByIdFunctions
    /\ ret.id = 0
    /\ ret.err = ErrIdZero
    /\ \A i \in 1 .. MaxId : store[i].present

====
